---- MODULE Spec2Model ----
(***************************************************************************)
(* Lifetime of native callback closures handed to the JavaScript host      *)
(* through FnOnceHandle / FnMutHandle / FnHandle / GenericFnHandle         *)
(* (src/webcore/fnhandle.rs).                                              *)
(*                                                                         *)
(* Native side: a handle owns a DiscardOnDrop<DropInJsOnDiscard>, i.e. a   *)
(* Reference plus the duty to call `.drop()` on it in the host when the    *)
(* handle is dropped.  `leak` disarms that duty, the conversion into a     *)
(* GenericFnHandle is `leak` followed by `GenericFnHandle::new`.           *)
(*                                                                         *)
(* Host side: every registration is a host function object with a `drop`   *)
(* method.  The host is single-threaded; calls into native code are        *)
(* synchronous, so overlapping calls only arise by reentrancy and are      *)
(* recorded on `stack`.                                                    *)
(*                                                                         *)
(* Scope of the model: the native holder of a handle runs outside of       *)
(* callbacks, so handle operations happen while no callback is on the      *)
(* stack, and the host calls `drop()` on a function only while that        *)
(* function has no call in progress.                                       *)
(***************************************************************************)
EXTENDS Integers, Sequences, FiniteSets, TLC

\* The model follows one closure from its registration on (registrations share
\* no state in fnhandle.rs).  The host may hand out any of the Reference ids
\* 1..MaxRef for it.
MaxRef == 2
\* Number of host call attempts (successful or not) in one behaviour.
MaxCalls == 4

\* Arguments the host passes to a callback (the test uses 2 and 3).
Args == {2, 3}

Refs == 1..MaxRef

\* The registration has at most its typed handle and one GenericFnHandle.
Handles == {1, 2}

TypedHandles == {"FnOnceHandle", "FnMutHandle", "FnHandle"}
HandleTypes == TypedHandles \cup {"GenericFnHandle"}

VARIABLES
    handles,    \* native handle values, in order of creation
    registered, \* the Reference of the registered closure (0: not registered)
    fn,         \* host function object + native closure of each Reference
    releases,   \* per Reference: executions of DropInJsOnDiscard::discard
    hostDropped,\* per Reference: the host itself has called drop()
    hostKnows,  \* References the host code holds and may call
    heldRefs,   \* raw References held natively (returned by leak)
    stack,      \* callbacks in progress, innermost last
    attempts,   \* per Reference: host call attempts made so far
    expected,   \* per Reference: sum of the arguments of the calls made while
                \* the registration was unreleased and not already running
    overlap,    \* per Reference: sum of the arguments of the calls made while
                \* the registration was unreleased but already running
    last,       \* the most recent host call attempt and its outcome
    panicked    \* a registration failed and the native side is unwinding

vars == <<handles, registered, fn, releases, hostDropped, hostKnows, heldRefs,
          stack, attempts, expected, overlap, last, panicked>>

----------------------------------------------------------------------------
\* Helpers

RECURSIVE SumSeq(_)
SumSeq(s) == IF s = <<>> THEN 0 ELSE Head(s) + SumSeq(Tail(s))

Count(s, x) == Cardinality({i \in DOMAIN s : s[i] = x})

Idx == DOMAIN handles

Calls == SumSeq([r \in Refs |-> attempts[r]])

----------------------------------------------------------------------------
\* Native data (src/webcore/fnhandle.rs)

\* struct DropInJsOnDiscard(Reference): a one-field tuple.
DropInJsOnDiscard(reference) == <<reference>>

\* DiscardOnDrop<T>: the wrapped value and whether its discard is still due.
DiscardOnDrop_new(value) == [value |-> value, armed |-> TRUE]

\* DiscardOnDrop::leak: hands the wrapped value out and disarms the holder.
DiscardOnDrop_leak(d) == [out |-> d.value, rest |-> [d EXCEPT !.armed = FALSE]]

\* Deref of the holder: the wrapped value, the holder is left alone.
DiscardOnDrop_deref(d) == d.value

\* The typed part of a native handle: its struct name and its discarder.
\* (phantom_args / phantom_output carry no run-time state.)
Handle(ty, discarder) == [ty |-> ty, discarder |-> discarder]

\* Variant: new wraps another Reference than the one it is given.
GenericFnHandle_new_Other(reference) ==
    Handle("GenericFnHandle",
           DiscardOnDrop_new(DropInJsOnDiscard((reference % MaxRef) + 1)))

\* GenericFnHandle::new
GenericFnHandle_new(reference) ==
    Handle("GenericFnHandle", DiscardOnDrop_new(DropInJsOnDiscard(reference)))

\* Variant: leak reads the Reference through deref and never disarms the
\* holder, so self is still armed when the function returns.
leak_ByDeref(self) ==
    [ret |-> DiscardOnDrop_deref(self.discarder)[1], rest |-> self]

\* leak(self) of all four handle types: self.discarder.leak().0
\* `rest` is what is left of self when the function returns.
leak(self) ==
    LET l == DiscardOnDrop_leak(self.discarder)
    IN  [ret |-> l.out[1], rest |-> [self EXCEPT !.discarder = l.rest]]

\* Variant: the conversion wraps a copy of the Reference and keeps the typed
\* handle armed, so the typed handle is dropped when from returns.
from_handle_ByRef(value) ==
    [generic |-> GenericFnHandle_new(DiscardOnDrop_deref(value.discarder)[1]),
     rest |-> value]

\* From<FnOnceHandle / FnMutHandle / FnHandle> for GenericFnHandle:
\* GenericFnHandle::new( value.leak() )
from_handle(value) ==
    LET l == leak(value)
    IN  [generic |-> GenericFnHandle_new(l.ret), rest |-> l.rest]

\* Variant: &handle serializes another Reference than the handle's own.
into_js_Other(self) == (DiscardOnDrop_deref(self.discarder)[1] % MaxRef) + 1

\* JsSerialize for &Handle: self.discarder.deref().0._into_js()
into_js(self) == DiscardOnDrop_deref(self.discarder)[1]

\* Variant: the FnOnce closure is serialized with the Mut wrapper.
FnOnceHandle_from_AsMut(reference) ==
    [kind |-> "Mut",
     handle |-> Handle("FnOnceHandle",
                       DiscardOnDrop_new(DropInJsOnDiscard(reference)))]

\* From<F> for FnOnceHandle: the closure is serialized as Once(f); `reference`
\* is the Reference the host returned for it (try_into().unwrap() succeeded).
FnOnceHandle_from(reference) ==
    [kind |-> "Once",
     handle |-> Handle("FnOnceHandle",
                       DiscardOnDrop_new(DropInJsOnDiscard(reference)))]

\* Variant: the FnMut closure is serialized with the Once wrapper.
FnMutHandle_from_AsOnce(reference) ==
    [kind |-> "Once",
     handle |-> Handle("FnMutHandle",
                       DiscardOnDrop_new(DropInJsOnDiscard(reference)))]

\* Variant: the FnMut closure is serialized without a wrapper, as an Fn.
FnMutHandle_from_AsFn(reference) ==
    [kind |-> "Shared",
     handle |-> Handle("FnMutHandle",
                       DiscardOnDrop_new(DropInJsOnDiscard(reference)))]

\* From<F> for FnMutHandle: the closure is serialized as Mut(f).
FnMutHandle_from(reference) ==
    [kind |-> "Mut",
     handle |-> Handle("FnMutHandle",
                       DiscardOnDrop_new(DropInJsOnDiscard(reference)))]

\* Variant: the Fn closure is serialized with the Once wrapper.
FnHandle_from_AsOnce(reference) ==
    [kind |-> "Once",
     handle |-> Handle("FnHandle",
                       DiscardOnDrop_new(DropInJsOnDiscard(reference)))]

\* Variant: the Fn closure is serialized with the Mut wrapper.
FnHandle_from_AsMut(reference) ==
    [kind |-> "Mut",
     handle |-> Handle("FnHandle",
                       DiscardOnDrop_new(DropInJsOnDiscard(reference)))]

\* From<F> for FnHandle: the closure is serialized as it is (an Fn).
FnHandle_from(reference) ==
    [kind |-> "Shared",
     handle |-> Handle("FnHandle",
                       DiscardOnDrop_new(DropInJsOnDiscard(reference)))]

From(ty, reference) ==
    CASE ty = "FnOnceHandle" -> FnOnceHandle_from(reference)
      [] ty = "FnMutHandle"  -> FnMutHandle_from(reference)
      [] ty = "FnHandle"     -> FnHandle_from(reference)

\* The closure of the test: rc2.set(rc2.get() + x)
closure_call(total, x) == total + x

\* IncrOnDrop::drop, run when the closure is destroyed: one more on the counter.
IncrOnDrop_drop(count) == count + 1

----------------------------------------------------------------------------
\* Host function object of a registration

NoFn == [kind |-> "none", pointer |-> FALSE, num_ongoing_calls |-> 0,
         total |-> 0, destroyed |-> 0]

\* The function object the host builds for a serialized closure.
NewFn(kind) == [kind |-> kind, pointer |-> TRUE, num_ongoing_calls |-> 0,
                total |-> 0, destroyed |-> 0]

\* cb.drop(): invalidates the registration and destroys the closure; a no-op
\* on a registration that is already invalid.
output_drop(f) ==
    IF f.pointer
    THEN [f EXCEPT !.pointer = FALSE, !.destroyed = IncrOnDrop_drop(@)]
    ELSE f

\* cb(x) raises a ReferenceError: the registration is invalid (released, or a
\* Once callback already called), or a Mut callback is already running.
CallFails(f) ==
    \/ ~f.pointer
    \/ f.kind = "Mut" /\ f.num_ongoing_calls # 0

\* cb(x) enters the closure: a Once registration is removed by the call.
Enter(f, x) ==
    [f EXCEPT !.pointer = IF f.kind = "Once" THEN FALSE ELSE @,
              !.num_ongoing_calls = @ + 1,
              !.total = closure_call(@, x)]

\* The closure returns: a Once closure was consumed by the call.
Leave(f) ==
    [f EXCEPT !.num_ongoing_calls = @ - 1,
              !.destroyed = IF f.kind = "Once" THEN IncrOnDrop_drop(@) ELSE @]

\* Variant: discard does not call drop() in the host.
discard_NoJs(self) == fn

\* Variant: discard frees the closure itself, whether or not the registration
\* is still valid in the host.
discard_FreeDirect(self) ==
    [fn EXCEPT ![self[1]] = [@ EXCEPT !.pointer = FALSE,
                                      !.destroyed = IncrOnDrop_drop(@)]]

\* DropInJsOnDiscard::discard: js! { @{self.0}.drop(); }
discard(self) == [fn EXCEPT ![self[1]] = output_drop(@)]

----------------------------------------------------------------------------
\* Dropping a handle value (DiscardOnDrop's Drop): discard runs iff armed.

RefOf(h) == h.discarder.value[1]

DropFn(h) == IF h.discarder.armed THEN discard(h.discarder.value) ELSE fn

DropReleases(h) ==
    IF h.discarder.armed
    THEN [releases EXCEPT ![RefOf(h)] = @ + 1]
    ELSE releases

Disarmed(d) == [d EXCEPT !.armed = FALSE]

\* Bookkeeping added to a handle value: the state of the variable holding it.
\*   scope  "in", or the way its scope ended: "return", "unwind"
\*   moved  "no", or how the value was moved out: "drop", "leak", "from"
\*   ret    the Reference leak() returned (0: none)
\*   origin index of the typed handle a GenericFnHandle was made from (0: none)
Tracked(h, origin) ==
    [ty |-> h.ty, discarder |-> h.discarder, scope |-> "in", moved |-> "no",
     ret |-> 0, origin |-> origin]

Code(t) == Handle(t.ty, t.discarder)

Usable(i) == handles[i].scope = "in" /\ handles[i].moved = "no"

NativeRuns == stack = <<>> /\ ~panicked

\* Unwinding after a panic: every handle still in scope leaves it, and the
\* values not moved out before are dropped, before anything else runs.
Unwound(hs) ==
    [i \in DOMAIN hs |->
        IF hs[i].scope = "in"
        THEN [hs[i] EXCEPT !.discarder = Disarmed(@), !.scope = "unwind"]
        ELSE hs[i]]

DroppedByUnwind(r) ==
    \E i \in Idx : /\ Usable(i)
                    /\ handles[i].discarder.armed
                    /\ RefOf(handles[i]) = r

RECURSIVE DiscardAll(_, _)
DiscardAll(rs, f) ==
    IF rs = {} THEN f
    ELSE LET r == CHOOSE x \in rs : TRUE
             dropped == discard(DropInJsOnDiscard(r))[r]
         IN  DiscardAll(rs \ {r}, [f EXCEPT ![r] = dropped])

----------------------------------------------------------------------------
\* last: ref/arg of the call; the state it was made in (rel: the native side
\* had released, hd: the host had dropped, depth: calls of it in progress,
\* nth: its number among the calls of this Reference); what came of it (res:
\* what the host saw, ran: the closure body ran).
NoCall == [ref |-> 0, arg |-> 0, rel |-> FALSE, hd |-> FALSE, depth |-> 0,
           nth |-> 0, res |-> "none", ran |-> FALSE]

Init ==
    /\ handles = <<>>
    /\ registered = 0
    /\ fn = [r \in Refs |-> NoFn]
    /\ releases = [r \in Refs |-> 0]
    /\ hostDropped = [r \in Refs |-> FALSE]
    /\ hostKnows = {}
    /\ heldRefs = {}
    /\ stack = <<>>
    /\ attempts = [r \in Refs |-> 0]
    /\ expected = [r \in Refs |-> 0]
    /\ overlap = [r \in Refs |-> 0]
    /\ last = NoCall
    /\ panicked = FALSE

\* Variant: the result of try_into() is not unwrapped; when the host's answer
\* is no Reference the handle is built all the same, around Reference r.
Construct_NoUnwrap(ty, r, ok) ==
    /\ NativeRuns
    /\ registered = 0
    /\ handles = <<>>
    /\ registered' = IF ok THEN r ELSE 0
    /\ fn' = IF ok THEN [fn EXCEPT ![r] = NewFn(From(ty, r).kind)] ELSE fn
    /\ handles' = Append(handles, Tracked(From(ty, r).handle, 0))
    /\ UNCHANGED <<releases, hostDropped, hostKnows, heldRefs, stack, attempts,
                   expected, overlap, last, panicked>>

\* let handle = FnXHandle::from(f): the closure is registered with the host;
\* when the host's answer is no Reference (ok = FALSE) the unwrap panics and
\* the native stack unwinds.
Construct(ty, r, ok) ==
    /\ NativeRuns
    /\ ok => registered = 0
    /\ IF ok
       THEN LET c == From(ty, r)
            IN  /\ registered' = r
                /\ fn' = [fn EXCEPT ![r] = NewFn(c.kind)]
                /\ handles' = Append(handles, Tracked(c.handle, 0))
                /\ UNCHANGED <<releases, heldRefs, panicked>>
       ELSE /\ panicked' = TRUE
            /\ handles' = Unwound(handles)
            /\ fn' = DiscardAll({q \in Refs : DroppedByUnwind(q)}, fn)
            /\ releases' = [q \in Refs |->
                                IF DroppedByUnwind(q) THEN releases[q] + 1
                                ELSE releases[q]]
            /\ heldRefs' = {}
            /\ UNCHANGED registered
    /\ UNCHANGED <<hostDropped, hostKnows, stack, attempts, expected, overlap,
                   last>>

\* js! { var cb = @{&handle}; }: the host receives the handle's Reference.
PassByRef(i) ==
    /\ NativeRuns
    /\ Usable(i)
    /\ hostKnows' = hostKnows \cup {into_js(Code(handles[i]))}
    /\ UNCHANGED <<handles, registered, fn, releases, hostDropped, heldRefs,
                   stack, attempts, expected, overlap, last, panicked>>

\* let reference = handle.leak(); whatever is left of the handle when leak
\* returns is dropped there.
Leak(i) ==
    /\ NativeRuns
    /\ Usable(i)
    /\ LET l == leak(Code(handles[i]))
       IN  /\ handles' = [handles EXCEPT
                              ![i].discarder = Disarmed(l.rest.discarder),
                              ![i].moved = "leak",
                              ![i].ret = l.ret]
           /\ heldRefs' = heldRefs \cup {l.ret}
           /\ fn' = DropFn(l.rest)
           /\ releases' = DropReleases(l.rest)
    /\ UNCHANGED <<registered, hostDropped, hostKnows, stack, attempts,
                   expected, overlap, last, panicked>>

\* let generic = GenericFnHandle::from(handle); whatever is left of the typed
\* handle when from returns is dropped there.
Convert(i) ==
    /\ NativeRuns
    /\ Usable(i)
    /\ handles[i].ty \in TypedHandles
    /\ LET c == from_handle(Code(handles[i]))
       IN  /\ handles' = Append([handles EXCEPT
                                    ![i].discarder = Disarmed(c.rest.discarder),
                                    ![i].moved = "from"],
                                Tracked(c.generic, i))
           /\ fn' = DropFn(c.rest)
           /\ releases' = DropReleases(c.rest)
    /\ UNCHANGED <<registered, hostDropped, hostKnows, heldRefs, stack,
                   attempts, expected, overlap, last, panicked>>

\* drop(handle)
ExplicitDrop(i) ==
    /\ NativeRuns
    /\ Usable(i)
    /\ handles' = [handles EXCEPT ![i].discarder = Disarmed(@),
                                  ![i].moved = "drop"]
    /\ fn' = DropFn(Code(handles[i]))
    /\ releases' = DropReleases(Code(handles[i]))
    /\ UNCHANGED <<registered, hostDropped, hostKnows, heldRefs, stack,
                   attempts, expected, overlap, last, panicked>>

\* The variable holding the handle goes out of scope by a return (at the end
\* of the block or early; the drop glue is the same).  The value is dropped
\* unless it was moved out before.

ScopeExit(i) ==
    /\ NativeRuns
    /\ i \in Idx
    /\ handles[i].scope = "in"
    /\ handles' = [handles EXCEPT ![i].discarder = Disarmed(@),
                                  ![i].scope = "return"]
    /\ IF handles[i].moved = "no"
       THEN /\ fn' = DropFn(Code(handles[i]))
            /\ releases' = DropReleases(Code(handles[i]))
       ELSE UNCHANGED <<fn, releases>>
    /\ UNCHANGED <<registered, hostDropped, hostKnows, heldRefs, stack,
                   attempts, expected, overlap, last, panicked>>

\* js! { var cb = @{reference}; } with a Reference obtained from leak().
PassReference(r) ==
    /\ NativeRuns
    /\ r \in heldRefs
    /\ r \notin hostKnows
    /\ hostKnows' = hostKnows \cup {r}
    /\ UNCHANGED <<handles, registered, fn, releases, hostDropped, heldRefs,
                   stack, attempts, expected, overlap, last, panicked>>

\* A Reference obtained from leak() goes out of native scope.
DropReference(r) ==
    /\ NativeRuns
    /\ r \in heldRefs
    /\ heldRefs' = heldRefs \ {r}
    /\ UNCHANGED <<handles, registered, fn, releases, hostDropped, hostKnows,
                   stack, attempts, expected, overlap, last, panicked>>

\* The host calls cb(x); from inside a running callback this is reentrancy.
HostInvoke(r, x) ==
    /\ r \in hostKnows
    /\ Calls < MaxCalls
    /\ LET f == fn[r]
           ok == ~CallFails(f)
           unreleased == releases[r] = 0 /\ ~hostDropped[r]
           running == Count(stack, r) # 0
       IN  /\ IF ok
              THEN /\ fn' = [fn EXCEPT ![r] = Enter(f, x)]
                   /\ stack' = Append(stack, r)
              ELSE UNCHANGED <<fn, stack>>
           /\ last' = [ref |-> r, arg |-> x,
                       rel |-> releases[r] > 0,
                       hd |-> hostDropped[r],
                       depth |-> Count(stack, r),
                       nth |-> attempts[r] + 1,
                       res |-> IF ok THEN "ok" ELSE "ReferenceError",
                       ran |-> fn'[r].total # fn[r].total]
           /\ attempts' = [attempts EXCEPT ![r] = @ + 1]
           /\ expected' = [expected EXCEPT
                    ![r] = IF unreleased /\ ~running THEN @ + x ELSE @]
           /\ overlap' = [overlap EXCEPT
                    ![r] = IF unreleased /\ running THEN @ + x ELSE @]
    /\ UNCHANGED <<handles, registered, releases, hostDropped, hostKnows,
                   heldRefs, panicked>>

\* The innermost running callback returns to the host.
Return ==
    /\ stack # <<>>
    /\ LET r == stack[Len(stack)]
       IN  fn' = [fn EXCEPT ![r] = Leave(@)]
    /\ stack' = SubSeq(stack, 1, Len(stack) - 1)
    /\ UNCHANGED <<handles, registered, releases, hostDropped, hostKnows,
                   heldRefs, attempts, expected, overlap, last, panicked>>

\* The host calls cb.drop() itself.
HostDrop(r) ==
    /\ r \in hostKnows
    /\ ~hostDropped[r]
    /\ fn[r].num_ongoing_calls = 0
    /\ fn' = [fn EXCEPT ![r] = output_drop(@)]
    /\ hostDropped' = [hostDropped EXCEPT ![r] = TRUE]
    /\ UNCHANGED <<handles, registered, releases, hostKnows, heldRefs, stack,
                   attempts, expected, overlap, last, panicked>>

Next ==
    \/ \E ty \in TypedHandles, r \in Refs, ok \in BOOLEAN : Construct(ty, r, ok)
    \/ \E i \in Idx : PassByRef(i)
    \/ \E i \in Idx : Leak(i)
    \/ \E i \in Idx : Convert(i)
    \/ \E i \in Idx : ExplicitDrop(i)
    \/ \E i \in Idx : ScopeExit(i)
    \/ \E r \in Refs : PassReference(r)
    \/ \E r \in Refs : DropReference(r)
    \/ \E r \in Refs, x \in Args : HostInvoke(r, x)
    \/ Return
    \/ \E r \in Refs : HostDrop(r)

Spec == Init /\ [][Next]_vars

\* Every scope ends and every callback returns.
FairSpec ==
    /\ Spec
    /\ WF_vars(Return)
    /\ \A i \in Handles :
          WF_vars(ScopeExit(i))

----------------------------------------------------------------------------
\* Properties

\* The typed handle is the first handle created, a GenericFnHandle the second.
Typed == handles[1]
IsType(ty) == Len(handles) >= 1 /\ Typed.ty = ty
Repeatable == IsType("FnMutHandle") \/ IsType("FnHandle")

\* The scope of handle i has ended with the value still in it.
EndedHolding(i) == handles[i].scope # "in" /\ handles[i].moved = "no"

\* C1 - At most one release: whatever the native side does with the handles of
\* a registration (explicit drop, scope exit, leak, conversion into a
\* GenericFnHandle), DropInJsOnDiscard::discard runs at most once for it.
C1_AtMostOneRelease == \A r \in Refs : releases[r] <= 1

\* A GenericFnHandle made from the typed handle was dropped explicitly, then
\* both variables went out of scope: one release.
C1_Witness ==
    /\ Len(handles) = 2
    /\ handles[1].moved = "from" /\ handles[1].scope = "return"
    /\ handles[2].moved = "drop" /\ handles[2].scope = "return"
    /\ releases[registered] = 1

C3_CallAfterReleaseFails ==
    \A ty \in TypedHandles :
        IsType(ty) /\ last.rel => last.res = "ReferenceError" /\ ~last.ran

\* A FnHandle was called, then dropped, then called again: the second call
\* failed and the total is that of the first call.
C3_Witness ==
    /\ IsType("FnHandle")
    /\ last.rel /\ last.nth = 2 /\ last.res = "ReferenceError"
    /\ ~hostDropped[last.ref]
    /\ fn[last.ref].total = 3

\* C4 - A live FnOnceHandle is called at most once: the first call of the
\* host runs the closure and returns, and removes the registration; every
\* later call raises a ReferenceError and does not run the closure again.
C4_OnceSingleUse ==
    IsType("FnOnceHandle") =>
        /\ last.nth = 1 /\ ~last.rel /\ ~last.hd =>
              /\ last.res = "ok" /\ last.ran
              /\ ~fn[last.ref].pointer
        /\ last.nth > 1 => last.res = "ReferenceError" /\ ~last.ran
        /\ fn[registered].total \in {0} \cup Args

\* The host called a FnOnceHandle that is neither released nor dropped a
\* second time, after the first call had returned; the second call failed.
C4_Witness ==
    /\ IsType("FnOnceHandle")
    /\ Usable(1) /\ ~hostDropped[registered]
    /\ last.ref = registered /\ last.nth = 2 /\ last.depth = 0
    /\ last.res = "ReferenceError"
    /\ fn[registered].total = 2

\* C5 - Sequential calls accumulate: for a FnMutHandle or FnHandle whose
\* closure adds its argument to a captured total, as long as every call was
\* made on the unreleased registration and none overlapped another, the total
\* is the sum of the arguments of all calls made (2 then 3 give 5).
C5_SequentialCallsAccumulate ==
    \A r \in Refs :
        Repeatable /\ r = registered /\ overlap[r] = 0 =>
            fn[r].total = expected[r]

\* The test: a FnHandle called with 2, then with 3, total 5, not yet released.
C5_Witness ==
    /\ IsType("FnHandle")
    /\ Usable(1) /\ stack = <<>>
    /\ attempts[registered] = 2 /\ last.arg = 3 /\ last.depth = 0
    /\ expected[registered] = 5
    /\ fn[registered].total = 5

\* C6 - The destructor of the closure of a FnMutHandle or FnHandle runs zero
\* times while the registration is unreleased, however often it is called,
\* and exactly once when the handle is released.
C6_DestroyedOnRelease ==
    \A r \in Refs :
        Repeatable /\ r = registered =>
            /\ releases[r] = 0 /\ ~hostDropped[r] => fn[r].destroyed = 0
            /\ releases[r] >= 1 => fn[r].destroyed = 1

\* The test: a FnHandle called with 2 and 3 goes out of scope; the counter
\* (total plus destructor runs) goes from 5 to 6.
C6_Witness ==
    /\ IsType("FnHandle")
    /\ EndedHolding(1)
    /\ attempts[registered] = 2
    /\ fn[registered].total = 5
    /\ fn[registered].total + fn[registered].destroyed = 6

\* What handle.leak() returns when called on the typed handle i directly.
DirectLeak(i) ==
    LET value == handles[i].discarder.value
    IN  leak(Handle(handles[i].ty, DiscardOnDrop_new(value))).ret

\* C7 - Type erasure preserves identity: GenericFnHandle::from(handle).leak()
\* returns the Reference handle.leak() returns, which is the Reference of the
\* registration.
C7_ErasurePreservesIdentity ==
    \A i \in Idx :
        handles[i].moved = "leak" =>
            /\ handles[i].ret = registered
            /\ handles[i].origin # 0 =>
                  handles[i].ret = DirectLeak(handles[i].origin)

\* A GenericFnHandle made from a FnOnceHandle was leaked.
C7_Witness ==
    /\ Len(handles) = 2
    /\ handles[1].ty = "FnOnceHandle" /\ handles[1].moved = "from"
    /\ handles[2].origin = 1 /\ handles[2].moved = "leak"
    /\ handles[2].ret = registered /\ registered \in heldRefs

\* Handles that still owe the release of Reference r.
ArmedOwners(r) ==
    {i \in Idx : handles[i].discarder.armed /\ RefOf(handles[i]) = r}

\* The registration is valid, unless the host dropped it or consumed it by
\* calling a FnOnceHandle.
StillInvokable(r) ==
    \/ fn[r].pointer
    \/ hostDropped[r]
    \/ IsType("FnOnceHandle") /\ attempts[r] > 0

\* C8 - The conversion into a GenericFnHandle hands the release duty over
\* without releasing: it wraps the same Reference, it does not run the release
\* action, the registration is as invokable after it as before, exactly one
\* armed owner is left, and dropping the GenericFnHandle releases the
\* registration exactly once.
C8_ConversionTransfersDuty ==
    \A i \in Idx :
        handles[i].origin # 0 =>
            LET r == RefOf(handles[i])
            IN  /\ r = registered
                /\ Usable(i) =>
                      /\ releases[r] = 0
                      /\ StillInvokable(r)
                      /\ ArmedOwners(r) = {i}
                /\ handles[i].moved = "drop" \/ EndedHolding(i) =>
                      /\ releases[r] = 1
                      /\ ArmedOwners(r) = {}

\* A FnMutHandle was converted, the host called the closure through the
\* GenericFnHandle, and the GenericFnHandle was dropped at the end of its scope.
C8_Witness ==
    /\ Len(handles) = 2
    /\ handles[1].ty = "FnMutHandle" /\ handles[1].moved = "from"
    /\ EndedHolding(2)
    /\ last.res = "ok" /\ ~last.rel
    /\ releases[registered] = 1 /\ ~fn[registered].pointer

\* C9 - A FnMutHandle callback is never entered twice: a call made while an
\* earlier call of the same callback has not returned raises a ReferenceError
\* and does not run the closure, so at most one call of it is in progress.
C9_MutReentrancyRejected ==
    IsType("FnMutHandle") =>
        /\ last.depth > 0 => last.res = "ReferenceError" /\ ~last.ran
        /\ \A r \in Refs : Count(stack, r) <= 1

\* The host re-entered an unreleased FnMutHandle callback that was running:
\* the inner call failed and the outer one is still in progress.
C9_Witness ==
    /\ IsType("FnMutHandle")
    /\ Usable(1) /\ ~hostDropped[registered]
    /\ stack = <<registered>>
    /\ last.ref = registered /\ last.depth = 1 /\ last.nth = 2
    /\ last.res = "ReferenceError"

\* The user leaked the registration (leak() called on the typed handle or on
\* the GenericFnHandle made from it).
LeakedByUser == \E i \in Idx : handles[i].moved = "leak"

ReleasedInvalidDestroyed(r) ==
    /\ r \in Refs
    /\ releases[r] = 1
    /\ ~fn[r].pointer
    /\ fn[r].destroyed = 1

\* C10 - Every handle that is constructed and never leaked is eventually
\* released: whichever way its scope ends (return or unwinding), the release
\* action has run, and from then on the registration is invalid in the host
\* and the closure destroyed.
C10_EventuallyReleased ==
    /\ [](\A i \in Idx :
            EndedHolding(i) => ReleasedInvalidDestroyed(RefOf(handles[i])))
    /\ (registered # 0) ~>
          (LeakedByUser \/ ReleasedInvalidDestroyed(registered))

\* A FnMutHandle that the host had called was still in scope when a later
\* registration failed: unwinding released it.
C10_Witness ==
    /\ IsType("FnMutHandle")
    /\ panicked
    /\ Typed.scope = "unwind" /\ Typed.moved = "no"
    /\ attempts[registered] > 0 /\ last.res = "ok"
    /\ ReleasedInvalidDestroyed(registered)

\* C11 - A failed registration is fatal: when registering the closure yields
\* no Reference the unwrap panics; the failed construction returns no handle
\* and registers nothing, after it no handle is left in scope and no release
\* is armed, and the native side registers nothing afterwards (no retry).
C11_RegistrationFailureFatal ==
    /\ [](\A i \in Idx : registered # 0 /\ RefOf(handles[i]) = registered)
    /\ [](panicked =>
            \A i \in Idx : handles[i].scope # "in" /\ ~handles[i].discarder.armed)
    /\ [][~panicked /\ panicked' =>
            Len(handles') = Len(handles) /\ registered' = registered]_vars
    /\ [][panicked =>
            panicked' /\ handles' = handles /\ registered' = registered]_vars

\* The first registration failed: the native side has panicked, and there is
\* neither a handle nor a registration.
C11_Witness ==
    /\ panicked
    /\ handles = <<>>
    /\ registered = 0
    /\ \A r \in Refs : fn[r] = NoFn /\ releases[r] = 0

\* C12 - A FnHandle callback has no overlap restriction: as long as neither
\* side has released the registration, a call made while earlier calls of the
\* same callback are still in progress succeeds and runs the closure, like
\* any sequential call, and the total is the sum of all arguments passed.
C12_SharedCallsMayOverlap ==
    IsType("FnHandle") =>
        /\ last.ref = registered /\ ~last.rel /\ ~last.hd =>
              last.res = "ok" /\ last.ran
        /\ fn[registered].total = expected[registered] + overlap[registered]

\* The host called a FnHandle with 2 and, from inside that call, with 3: both
\* calls are in progress and the total is 5.
C12_Witness ==
    /\ IsType("FnHandle")
    /\ stack = <<registered, registered>>
    /\ last.depth = 1 /\ last.arg = 3 /\ last.res = "ok"
    /\ overlap[registered] = 3
    /\ fn[registered].total = 5

\* C13 - No cancellation: while a FnMutHandle or FnHandle registration has
\* been released by neither the native holder nor the host, every call that
\* does not overlap another succeeds, however many calls came before and
\* whether or not the handle was leaked or converted.
C13_NoCancellation ==
    Repeatable /\ last.ref = registered
               /\ ~last.rel /\ ~last.hd /\ last.depth = 0 =>
        last.res = "ok" /\ last.ran

\* A FnMutHandle was converted, the GenericFnHandle leaked, every variable
\* and the Reference left the native scope: the fourth call still succeeds.
C13_Witness ==
    /\ IsType("FnMutHandle")
    /\ Len(handles) = 2
    /\ handles[1].moved = "from" /\ handles[1].scope = "return"
    /\ handles[2].moved = "leak" /\ handles[2].scope = "return"
    /\ heldRefs = {}
    /\ last.nth = 4 /\ last.depth = 0 /\ last.res = "ok"

\* C14 - The Reference of a handle is fixed at construction: every handle
\* wraps exactly one Reference, that of the registration, which belongs to
\* the one closure registered; no step (call, &handle, leak, conversion,
\* drop) rebinds a handle, the registration or the closure's wrapper.
C14_ReferenceNeverRebound ==
    /\ [](\A i \in Idx :
            /\ Len(handles[i].discarder.value) = 1
            /\ RefOf(handles[i]) = registered
            /\ fn[registered].kind = From(Typed.ty, registered).kind)
    /\ [](\A r \in Refs : fn[r].kind # "none" => r = registered)
    /\ [][\A i \in Idx : RefOf(handles'[i]) = RefOf(handles[i])]_vars
    /\ [][registered # 0 =>
            /\ registered' = registered
            /\ fn'[registered].kind = fn[registered].kind]_vars

\* A FnHandle was passed by reference, called, converted, and the
\* GenericFnHandle leaked: both handles wrap the Reference of the registration.
C14_Witness ==
    /\ IsType("FnHandle")
    /\ Len(handles) = 2
    /\ handles[1].moved = "from" /\ handles[2].moved = "leak"
    /\ registered \in hostKnows /\ last.res = "ok"
    /\ RefOf(handles[1]) = registered /\ RefOf(handles[2]) = registered
    /\ handles[2].ret = registered

\* The Reference the host calls in this step, and whether that call breaks
\* the contract: the registration is released or dropped, a FnOnceHandle was
\* called before, or a FnMutHandle callback is running.
CalledNow(r) == attempts'[r] # attempts[r]

Violation(r) ==
    \/ releases[r] > 0
    \/ hostDropped[r]
    \/ IsType("FnOnceHandle") /\ attempts[r] > 0
    \/ IsType("FnMutHandle") /\ Count(stack, r) > 0

\* C15 - A call that breaks the contract fails at that very call with a
\* ReferenceError in the host, not with a native panic; it does not run the
\* closure and leaves the closure's state, the registration and the handles
\* as they were.
C15_ViolationFailsAtCallSite ==
    [][\A r \in Refs :
          CalledNow(r) /\ Violation(r) =>
              /\ last'.ref = r /\ last'.res = "ReferenceError" /\ ~last'.ran
              /\ panicked' = panicked
              /\ fn' = fn /\ stack' = stack
              /\ handles' = handles
              /\ releases' = releases /\ hostDropped' = hostDropped]_vars

\* A FnOnceHandle callback called the host, which called it again: the inner
\* call failed, the outer one is still running with its total, no panic.
C15_Witness ==
    /\ IsType("FnOnceHandle")
    /\ Usable(1) /\ ~panicked
    /\ stack = <<registered>>
    /\ last.nth = 2 /\ last.depth = 1 /\ last.res = "ReferenceError"
    /\ fn[registered].total = 3 /\ fn[registered].destroyed = 0

\* C16 - Release from both sides is harmless: when the host has called drop()
\* on the Reference and the native handle has released it too, in either
\* order, the closure's destructor has run exactly once; the second of the two
\* releases changes nothing in the host and raises no panic (a release done by
\* the unwinding of a failed registration happens in a panic it did not cause).
SecondRelease(r) ==
    \/ hostDropped[r] /\ releases'[r] > releases[r]
    \/ releases[r] > 0 /\ ~hostDropped[r] /\ hostDropped'[r]

C17_OnceDestroyedExactlyOnce ==
    IsType("FnOnceHandle") =>
        /\ fn[registered].destroyed <= 1
        /\ stack = <<>> /\ attempts[registered] > 0 => fn[registered].destroyed = 1
        /\ releases[registered] > 0 => fn[registered].destroyed = 1

\* A FnOnceHandle nobody called went out of scope: the release destroyed the
\* closure.
C17_Witness ==
    /\ IsType("FnOnceHandle")
    /\ Len(handles) = 1 /\ EndedHolding(1)
    /\ attempts[registered] = 0 /\ ~hostDropped[registered]
    /\ releases[registered] = 1
    /\ fn[registered].destroyed = 1

\* C18 - Passing &handle to the host has no lifecycle effect: the step hands
\* the host the Reference of the registration, the same one every time, and
\* leaves the handles, the host function and the release count as they were,
\* so the handle can be passed again; a handle that was only ever passed by
\* reference has released exactly once when its scope has ended.
C18_PassByRefNoLifecycleEffect ==
    /\ [](hostKnows \subseteq {registered})
    /\ [][hostKnows' # hostKnows /\ (\E i \in Idx : Usable(i)) =>
            /\ hostKnows' = hostKnows \cup {registered}
            /\ handles' = handles
            /\ fn' = fn /\ releases' = releases /\ hostDropped' = hostDropped
            /\ panicked' = panicked]_vars
    /\ [](registered \in hostKnows /\ Len(handles) = 1 /\ EndedHolding(1) =>
            releases[registered] = 1)

\* The test's scenario: &handle passed, called with 2 and 3, dropped at the
\* end of the scope: one release.
C18_Witness ==
    /\ IsType("FnMutHandle")
    /\ registered \in hostKnows
    /\ Len(handles) = 1 /\ EndedHolding(1)
    /\ heldRefs = {}
    /\ last.nth = 2 /\ last.res = "ok" /\ fn[registered].total = 5
    /\ releases[registered] = 1

====
